---- MODULE Spec2Model ----
(***************************************************************************)
(* State-machine model of the digiwin Clarity contract (the contract text  *)
(* is the tail of src/scripts/digiwin-driver.ts, lines 488-706).           *)
(*                                                                         *)
(* Every public call is one atomic step: a call that returns (err ..) or   *)
(* aborts with a runtime error rolls back every write it made, which is    *)
(* the ledger's transaction semantics.  Unsigned integers are modelled     *)
(* with a reduced width (UintBits instead of 128 bits).                    *)
(***************************************************************************)
EXTENDS Integers, Sequences, FiniteSets, TLC

(***************************************************************************)
(* Bounds of the model                                                     *)
(***************************************************************************)
UintBits == 11
UintMax == 2^UintBits - 1
MaxCalls == 3
InitBalance == 2

(***************************************************************************)
(* Inputs of the calls                                                     *)
(***************************************************************************)
Players == {"deployer", "wallet_1"}
Creators == {"deployer"}
Contract == "digiwin"
Principals == Players \cup {Contract}
MinNumbers == {1, 3}
MaxNumbers == {1, 2}
GuessNumbers == {0, 1, 2}
Fees == {0, 1}
Seeds == {0, 1}
Heights == {1, 2}

(***************************************************************************)
(* Constants of the contract                                               *)
(***************************************************************************)
ERR_UNAUTHORIZED == 100
ERR_GAME_NOT_FOUND == 101
ERR_GAME_ALREADY_WON == 102
ERR_INVALID_GUESS == 103
ERR_TRANSFER_FAILED == 104
ERR_INVALID_PARAMS == 105
ERR_GAME_EXPIRED == 106
ERR_ALREADY_GUESSED == 107
ERR_TOO_MANY_GUESSES == 108
PlayerGuessCap == 10
GameGuessCap == 1000

VARIABLES
  totalGames,     \* data-var total-games
  games,          \* map games: game-id -> record
  playerGuesses,  \* map player-guesses: {game-id, player} -> list of uint
  gameGuesses,    \* map game-guesses: game-id -> list of attempts
  balances,       \* STX balance of every principal, the contract included
  blockHeight,    \* block-height of the block being mined
  prevHash,       \* low 16 bytes (little endian) of the previous header hash
  payoutLog,      \* every transfer made out of custody, in order
  lastCall,       \* the last public call: entry point, response, event
  mempool,        \* the transactions broadcast and not yet mined, in order
  driver          \* the off-chain driver: its mode and its position

vars == <<totalGames, games, playerGuesses, gameGuesses, balances,
          blockHeight, prevHash, payoutLog, lastCall, mempool, driver>>

(***************************************************************************)
(* Responses                                                               *)
(***************************************************************************)
OkUint(n) == [kind |-> "ok", type |-> "uint", val |-> n, flag |-> FALSE]
OkBool(b) == [kind |-> "ok", type |-> "bool", val |-> 0, flag |-> b]
Err(c) == [kind |-> "err", type |-> "uint", val |-> c, flag |-> FALSE]
\* a runtime error of the VM: the transaction aborts, no response is returned
Abort(reason) == [kind |-> reason, type |-> "none", val |-> 0, flag |-> FALSE]
ArithmeticUnderflow == "ArithmeticUnderflow"
ArithmeticOverflow == "ArithmeticOverflow"

\* what a call printed: nothing, or the game-won notification
NoEvent == [event |-> "none", gameId |-> 0, winner |-> "none", prize |-> 0]
GameWonEvent(gameId, winner, prize) ==
  [event |-> "game-won", gameId |-> gameId, winner |-> winner, prize |-> prize]

IsOk(r) == r.kind = "ok"
IsErr(r, c) == r.kind = "err" /\ r.val = c
IsOkBool(r, b) == r.kind = "ok" /\ r.type = "bool" /\ r.flag = b
IsOkUint(r, n) == r.kind = "ok" /\ r.type = "uint" /\ r.val = n

(***************************************************************************)
(* Maps and lists of the VM                                                *)
(***************************************************************************)
EmptyMap == [x \in {} |-> 0]
MapSet(m, k, v) == [x \in (DOMAIN m) \cup {k} |-> IF x = k THEN v ELSE m[x]]
DefaultTo(d, m, k) == IF k \in DOMAIN m THEN m[k] ELSE d

\* faulty variant: a list of any length is accepted
AsMaxLenUnbounded(len, cap) == TRUE

\* as-max-len? gives (some list) when the list is no longer than the cap
AsMaxLenFits(len, cap) == len <= cap

RECURSIVE Xor(_, _)
Xor(a, b) ==
  IF a = 0 THEN b
  ELSE IF b = 0 THEN a
  ELSE (((a % 2) + (b % 2)) % 2) + (2 * Xor(a \div 2, b \div 2))

(***************************************************************************)
(* stx-transfer? of the host.  StxTransferCode is 0 when the transfer is   *)
(* made and otherwise the code n of its (err n) response: u3 for an amount *)
(* of zero, u2 for a transfer to oneself, u1 for an insufficient balance.  *)
(***************************************************************************)
StxTransferCode(bal, amount, from, to) ==
  IF amount = 0 THEN 3
  ELSE IF from = to THEN 2
  ELSE IF bal[from] < amount THEN 1
  ELSE 0

StxTransferBalances(bal, amount, from, to) ==
  [bal EXCEPT ![from] = @ - amount, ![to] = @ + amount]

(***************************************************************************)
(* create-game                                                             *)
(***************************************************************************)
RangeOf(minNumber, maxNumber) == (maxNumber - minNumber) + 1

\* faulty variant: the block height is not mixed into the seed
RandomSeedHashOnly(hash, height) == hash

RandomSeed(hash, height) == Xor(hash, height)

\* faulty variant: the seed is not reduced modulo the range
SecretOfUnreduced(hash, height, minNumber, maxNumber) ==
  RandomSeed(hash, height) + minNumber

SecretOf(hash, height, minNumber, maxNumber) ==
  (RandomSeed(hash, height) % RangeOf(minNumber, maxNumber)) + minNumber

\* faulty variant: the record is stamped with the height of the previous block
NewGameStampedEarlier(sender, secret, minNumber, maxNumber, entryFee, height) ==
  [creator |-> sender, secretNumber |-> secret,
   minNumber |-> minNumber, maxNumber |-> maxNumber,
   entryFee |-> entryFee, prizePool |-> 0, guessCount |-> 0,
   winner |-> "none", status |-> "active", createdAt |-> height - 1]

NewGame(sender, secret, minNumber, maxNumber, entryFee, height) ==
  [creator |-> sender, secretNumber |-> secret,
   minNumber |-> minNumber, maxNumber |-> maxNumber,
   entryFee |-> entryFee, prizePool |-> 0, guessCount |-> 0,
   winner |-> "none", status |-> "active", createdAt |-> height]

\* faulty variant: every creation is answered with the id 0
CreateGameResponseFirstId(minNumber, maxNumber, entryFee) ==
  IF blockHeight < 1 THEN Abort(ArithmeticUnderflow)
  ELSE IF maxNumber < minNumber THEN Abort(ArithmeticUnderflow)
  ELSE IF (maxNumber - minNumber) + 1 > UintMax THEN Abort(ArithmeticOverflow)
  ELSE IF ~(minNumber <= maxNumber) THEN Err(ERR_INVALID_PARAMS)
  ELSE IF totalGames + 1 > UintMax THEN Abort(ArithmeticOverflow)
  ELSE OkUint(0)

\* faulty variant: the parameters are validated with < instead of <=
CreateGameResponseStrict(minNumber, maxNumber, entryFee) ==
  IF blockHeight < 1 THEN Abort(ArithmeticUnderflow)
  ELSE IF maxNumber < minNumber THEN Abort(ArithmeticUnderflow)
  ELSE IF (maxNumber - minNumber) + 1 > UintMax THEN Abort(ArithmeticOverflow)
  ELSE IF ~(minNumber < maxNumber) THEN Err(ERR_INVALID_PARAMS)
  ELSE IF totalGames + 1 > UintMax THEN Abort(ArithmeticOverflow)
  ELSE OkUint(totalGames)

\* The let-bindings are evaluated before the body, so the range is computed
\* (and may abort) before the parameters are validated.
CreateGameResponse(minNumber, maxNumber, entryFee) ==
  IF blockHeight < 1 THEN Abort(ArithmeticUnderflow)
  ELSE IF maxNumber < minNumber THEN Abort(ArithmeticUnderflow)
  ELSE IF (maxNumber - minNumber) + 1 > UintMax THEN Abort(ArithmeticOverflow)
  ELSE IF ~(minNumber <= maxNumber) THEN Err(ERR_INVALID_PARAMS)
  ELSE IF totalGames + 1 > UintMax THEN Abort(ArithmeticOverflow)
  ELSE OkUint(totalGames)

CreateGame(sender, minNumber, maxNumber, entryFee) ==
  LET resp == CreateGameResponse(minNumber, maxNumber, entryFee)
      gameId == totalGames
      secret == SecretOf(prevHash, blockHeight, minNumber, maxNumber)
  IN /\ lastCall' = [op |-> "create-game", result |-> resp,
                     event |-> NoEvent]
     /\ IF IsOk(resp)
        THEN /\ games' = MapSet(games, gameId,
                   NewGame(sender, secret, minNumber, maxNumber, entryFee,
                           blockHeight))
             /\ totalGames' = gameId + 1
        ELSE UNCHANGED <<games, totalGames>>
     /\ UNCHANGED <<playerGuesses, gameGuesses, balances, blockHeight,
                    prevHash, payoutLog>>

(***************************************************************************)
(* guess                                                                   *)
(***************************************************************************)
\* faulty variant: the status of the game is not checked
IsActiveUnchecked(game) == TRUE

IsActive(game) == game.status = "active"

\* faulty variant: only the lower end of the range is checked
InRangeLowerOnly(game, number) == number >= game.minNumber

InRange(game, number) ==
  number >= game.minNumber /\ number <= game.maxNumber

\* faulty variant: every number is taken for the secret
IsWinAnyNumber(game, number) == TRUE

IsWin(game, number) == number = game.secretNumber

\* faulty variant: the payout leaves out the fee of the winning guess
FinalPoolWithoutFee(game) == game.prizePool

FinalPool(game) == game.prizePool + game.entryFee

Attempt(sender, number, height) ==
  [player |-> sender, guess |-> number, timestamp |-> height]

\* faulty variant: the histories of all games share the key of game 0
PlayerKeyShared(gameId, player) == [gameId |-> 0, player |-> player]

PlayerKey(gameId, player) == [gameId |-> gameId, player |-> player]

\* faulty variant: the pool is not emptied when the game is won
WonGameKeepsPool(game, winner) ==
  [game EXCEPT !.guessCount = @ + 1, !.winner = winner, !.status = "won"]

\* (merge game {prize-pool: u0, guess-count: .., winner: (some ..), status: "won"})
WonGame(game, winner) ==
  [game EXCEPT !.prizePool = 0, !.guessCount = @ + 1,
               !.winner = winner, !.status = "won"]

\* faulty variant: the fee of a missed guess is not added to the pool
ContinuedGameWithoutFee(game) == [game EXCEPT !.guessCount = @ + 1]

\* faulty variant: a missed guess is not counted
ContinuedGameUncounted(game) ==
  [game EXCEPT !.prizePool = @ + game.entryFee]

\* (merge game {prize-pool: (+ current-pool entry-fee), guess-count: ..})
ContinuedGame(game) ==
  [game EXCEPT !.prizePool = @ + game.entryFee, !.guessCount = @ + 1]

\* the fee is moved into custody only when it is positive: the code of that
\* transfer (0 when it is made or skipped) and the balances after it
FeeCode(game, sender) ==
  IF game.entryFee > 0
  THEN StxTransferCode(balances, game.entryFee, sender, Contract)
  ELSE 0

\* faulty variant: the fee is not moved into custody
AfterFeeUncharged(game, sender) == balances

AfterFee(game, sender) ==
  IF game.entryFee > 0
  THEN StxTransferBalances(balances, game.entryFee, sender, Contract)
  ELSE balances

PayoutCode(game, sender) ==
  StxTransferCode(AfterFee(game, sender), FinalPool(game), Contract, sender)

AfterPayout(game, sender) ==
  StxTransferBalances(AfterFee(game, sender), FinalPool(game), Contract, sender)

PlayerGuessList(gameId, sender) ==
  DefaultTo(<<>>, playerGuesses, PlayerKey(gameId, sender))

CurrentGuesses(gameId) == DefaultTo(<<>>, gameGuesses, gameId)

\* faulty variant: an unknown game id is answered like a number out of range
GuessResponseUnknownAsInvalid(sender, gameId, number) ==
  IF gameId \notin DOMAIN games THEN Err(ERR_INVALID_GUESS)
  ELSE LET game == games[gameId] IN
    IF ~IsActive(game) THEN Err(ERR_GAME_ALREADY_WON)
    ELSE IF ~InRange(game, number) THEN Err(ERR_INVALID_GUESS)
    ELSE IF FeeCode(game, sender) # 0 THEN Err(FeeCode(game, sender))
    ELSE IF ~AsMaxLenFits(Len(PlayerGuessList(gameId, sender)) + 1,
                          PlayerGuessCap)
      THEN Err(ERR_TOO_MANY_GUESSES)
    ELSE IF ~AsMaxLenFits(Len(CurrentGuesses(gameId)) + 1, GameGuessCap)
      THEN Err(ERR_TOO_MANY_GUESSES)
    ELSE IF FinalPool(game) > UintMax THEN Abort(ArithmeticOverflow)
    ELSE IF IsWin(game, number) /\ PayoutCode(game, sender) # 0
      THEN Err(PayoutCode(game, sender))
    ELSE IF game.guessCount + 1 > UintMax THEN Abort(ArithmeticOverflow)
    ELSE OkBool(IsWin(game, number))

\* faulty variant: a number the player has already guessed is refused
GuessResponseDeduplicating(sender, gameId, number) ==
  IF gameId \notin DOMAIN games THEN Err(ERR_GAME_NOT_FOUND)
  ELSE LET game == games[gameId] IN
    IF ~IsActive(game) THEN Err(ERR_GAME_ALREADY_WON)
    ELSE IF ~InRange(game, number) THEN Err(ERR_INVALID_GUESS)
    ELSE IF \E i \in DOMAIN PlayerGuessList(gameId, sender) :
              PlayerGuessList(gameId, sender)[i] = number
      THEN Err(ERR_ALREADY_GUESSED)
    ELSE IF FeeCode(game, sender) # 0 THEN Err(FeeCode(game, sender))
    ELSE IF ~AsMaxLenFits(Len(PlayerGuessList(gameId, sender)) + 1,
                          PlayerGuessCap)
      THEN Err(ERR_TOO_MANY_GUESSES)
    ELSE IF ~AsMaxLenFits(Len(CurrentGuesses(gameId)) + 1, GameGuessCap)
      THEN Err(ERR_TOO_MANY_GUESSES)
    ELSE IF FinalPool(game) > UintMax THEN Abort(ArithmeticOverflow)
    ELSE IF IsWin(game, number) /\ PayoutCode(game, sender) # 0
      THEN Err(PayoutCode(game, sender))
    ELSE IF game.guessCount + 1 > UintMax THEN Abort(ArithmeticOverflow)
    ELSE OkBool(IsWin(game, number))

\* faulty variant: the capacities are checked before the fee is charged
GuessResponseCapacityFirst(sender, gameId, number) ==
  IF gameId \notin DOMAIN games THEN Err(ERR_GAME_NOT_FOUND)
  ELSE LET game == games[gameId] IN
    IF ~IsActive(game) THEN Err(ERR_GAME_ALREADY_WON)
    ELSE IF ~InRange(game, number) THEN Err(ERR_INVALID_GUESS)
    ELSE IF ~AsMaxLenFits(Len(PlayerGuessList(gameId, sender)) + 1,
                          PlayerGuessCap)
      THEN Err(ERR_TOO_MANY_GUESSES)
    ELSE IF ~AsMaxLenFits(Len(CurrentGuesses(gameId)) + 1, GameGuessCap)
      THEN Err(ERR_TOO_MANY_GUESSES)
    ELSE IF FeeCode(game, sender) # 0 THEN Err(FeeCode(game, sender))
    ELSE IF FinalPool(game) > UintMax THEN Abort(ArithmeticOverflow)
    ELSE IF IsWin(game, number) /\ PayoutCode(game, sender) # 0
      THEN Err(PayoutCode(game, sender))
    ELSE IF game.guessCount + 1 > UintMax THEN Abort(ArithmeticOverflow)
    ELSE OkBool(IsWin(game, number))

\* The response of guess, in the order in which the code checks.
GuessResponse(sender, gameId, number) ==
  IF gameId \notin DOMAIN games THEN Err(ERR_GAME_NOT_FOUND)
  ELSE LET game == games[gameId] IN
    IF ~IsActive(game) THEN Err(ERR_GAME_ALREADY_WON)
    ELSE IF ~InRange(game, number) THEN Err(ERR_INVALID_GUESS)
    ELSE IF FeeCode(game, sender) # 0 THEN Err(FeeCode(game, sender))
    ELSE IF ~AsMaxLenFits(Len(PlayerGuessList(gameId, sender)) + 1,
                          PlayerGuessCap)
      THEN Err(ERR_TOO_MANY_GUESSES)
    ELSE IF ~AsMaxLenFits(Len(CurrentGuesses(gameId)) + 1, GameGuessCap)
      THEN Err(ERR_TOO_MANY_GUESSES)
    ELSE IF FinalPool(game) > UintMax THEN Abort(ArithmeticOverflow)
    ELSE IF IsWin(game, number) /\ PayoutCode(game, sender) # 0
      THEN Err(PayoutCode(game, sender))
    ELSE IF game.guessCount + 1 > UintMax THEN Abort(ArithmeticOverflow)
    ELSE OkBool(IsWin(game, number))

Guess(sender, gameId, number) ==
  LET resp == GuessResponse(sender, gameId, number)
      game == games[gameId]
      won == IsOkBool(resp, TRUE)
  IN /\ lastCall' = [op |-> "guess", result |-> resp,
                     event |-> IF won
                               THEN GameWonEvent(gameId, sender, FinalPool(game))
                               ELSE NoEvent]
     /\ IF IsOk(resp)
        THEN /\ playerGuesses' =
                  MapSet(playerGuesses, PlayerKey(gameId, sender),
                         Append(PlayerGuessList(gameId, sender), number))
             /\ gameGuesses' =
                  MapSet(gameGuesses, gameId,
                         Append(CurrentGuesses(gameId),
                                Attempt(sender, number, blockHeight)))
             /\ IF won
                THEN /\ balances' = AfterPayout(game, sender)
                     /\ games' = MapSet(games, gameId, WonGame(game, sender))
                     /\ payoutLog' = Append(payoutLog,
                          [gameId |-> gameId, to |-> sender,
                           amount |-> FinalPool(game)])
                ELSE /\ balances' = AfterFee(game, sender)
                     /\ games' = MapSet(games, gameId, ContinuedGame(game))
                     /\ UNCHANGED payoutLog
        ELSE UNCHANGED <<playerGuesses, gameGuesses, balances, games,
                         payoutLog>>
     /\ UNCHANGED <<totalGames, blockHeight, prevHash>>

(***************************************************************************)
(* read-only functions.  Those that read the map games take the map as a   *)
(* parameter, so that they can be evaluated on maps other than the current *)
(* one.  An optional value is none or (some v).                            *)
(***************************************************************************)
None == [some |-> FALSE]
Some(v) == [some |-> TRUE, val |-> v]

\* (map-get? games game-id)
MapGet(m, k) == IF k \in DOMAIN m THEN Some(m[k]) ELSE None

\* the field winner of a record: (optional principal)
WinnerOf(game) == IF game.winner = "none" THEN None ELSE Some(game.winner)

GetGameInfo(gameMap, gameId) == MapGet(gameMap, gameId)

GetGameWinner(gameMap, gameId) ==
  IF gameId \in DOMAIN gameMap THEN Some(WinnerOf(gameMap[gameId])) ELSE None

GetGuessCount(gameMap, gameId) ==
  IF gameId \in DOMAIN gameMap THEN Some(gameMap[gameId].guessCount) ELSE None

GetPrizePool(gameMap, gameId) ==
  IF gameId \in DOMAIN gameMap THEN Some(gameMap[gameId].prizePool) ELSE None

GetTotalGames == OkUint(totalGames)

\* the not-found branch wraps the constant, itself (err u101), in err
IsGameActive(gameMap, gameId) ==
  IF gameId \in DOMAIN gameMap
  THEN OkBool(gameMap[gameId].status = "active")
  ELSE [kind |-> "err", type |-> "response", val |-> ERR_GAME_NOT_FOUND,
        flag |-> FALSE]

\* faulty variant: the history of the first game is given for every game id
GetPlayerGuessesOfFirstGame(gameId, player) ==
  DefaultTo(<<>>, playerGuesses, PlayerKey(0, player))

GetPlayerGuesses(gameId, player) ==
  DefaultTo(<<>>, playerGuesses, PlayerKey(gameId, player))

(***************************************************************************)
(* The driver while it is not running: the contract is called directly.    *)
(***************************************************************************)
\* what the node did with the broadcast that the driver is waiting for
NoVerdict == [verdict |-> "none", txid |-> "", res |-> Abort("none")]

DriverOff ==
  [mode |-> "off", pc |-> "off", fn |-> "none", args |-> <<>>, i |-> 0,
   broadcasts |-> 0, slept |-> 0, result |-> "none", total |-> 0,
   node |-> NoVerdict, aborted |-> FALSE]

(***************************************************************************)
(* The chain: a new block is mined                                         *)
(***************************************************************************)
MineBlock ==
  /\ blockHeight + 1 \in Heights
  /\ blockHeight' = blockHeight + 1
  /\ prevHash' \in Seeds
  /\ UNCHANGED <<totalGames, games, playerGuesses, gameGuesses, balances,
                 payoutLog, lastCall, mempool, driver>>

Init ==
  /\ totalGames = 0
  /\ games = EmptyMap
  /\ playerGuesses = EmptyMap
  /\ gameGuesses = EmptyMap
  /\ balances = [p \in Principals |-> IF p = Contract THEN 0 ELSE InitBalance]
  /\ blockHeight = 1
  /\ prevHash \in Seeds
  /\ payoutLog = <<>>
  /\ lastCall = [op |-> "deploy", result |-> OkBool(TRUE), event |-> NoEvent]
  /\ mempool = <<>>
  /\ driver = DriverOff

\* the number of recorded guesses over all games
RECURSIVE GuessesBelow(_)
GuessesBelow(n) ==
  IF n = 0 THEN 0 ELSE Len(CurrentGuesses(n - 1)) + GuessesBelow(n - 1)

TotalGuesses == GuessesBelow(totalGames)

\* the calls that succeeded so far: every one created a game or recorded a guess
Calls == totalGames + TotalGuesses

\* the ids of the games, and the first id that names no game
GameIds == 0..totalGames

\* successful calls are made only while fewer than MaxCalls have been made;
\* a failing call can always be made
CreateGameCall ==
  \E sender \in Creators, minNumber \in MinNumbers, maxNumber \in MaxNumbers,
     entryFee \in Fees :
    /\ IsOk(CreateGameResponse(minNumber, maxNumber, entryFee))
         => Calls < MaxCalls
    /\ CreateGame(sender, minNumber, maxNumber, entryFee)
    /\ UNCHANGED <<mempool, driver>>

GuessCall ==
  \E sender \in Players, gameId \in GameIds, number \in GuessNumbers :
    /\ IsOk(GuessResponse(sender, gameId, number)) => Calls < MaxCalls
    /\ Guess(sender, gameId, number)
    /\ UNCHANGED <<mempool, driver>>

Next == CreateGameCall \/ GuessCall \/ MineBlock

Spec == Init /\ [][Next]_vars

(***************************************************************************)
(* A second specification, for the capacities of the two guess lists.  It  *)
(* starts where one game over two numbers has only been missed so far:     *)
(* one player has guessed PlayerGuessCap - 1 times, and either nobody else *)
(* has guessed or a crowd of other principals has filled its lists, so     *)
(* that the log of the game is one short of GameGuessCap.  Every guess of  *)
(* the history was the number of the range that is not the secret, and its *)
(* fee is in custody; the player has any balance up to InitBalance left.   *)
(***************************************************************************)
Crowd ==
  <<
     "crowd_01", "crowd_02", "crowd_03", "crowd_04", "crowd_05",
     "crowd_06", "crowd_07", "crowd_08", "crowd_09", "crowd_10",
     "crowd_11", "crowd_12", "crowd_13", "crowd_14", "crowd_15",
     "crowd_16", "crowd_17", "crowd_18", "crowd_19", "crowd_20",
     "crowd_21", "crowd_22", "crowd_23", "crowd_24", "crowd_25",
     "crowd_26", "crowd_27", "crowd_28", "crowd_29", "crowd_30",
     "crowd_31", "crowd_32", "crowd_33", "crowd_34", "crowd_35",
     "crowd_36", "crowd_37", "crowd_38", "crowd_39", "crowd_40",
     "crowd_41", "crowd_42", "crowd_43", "crowd_44", "crowd_45",
     "crowd_46", "crowd_47", "crowd_48", "crowd_49", "crowd_50",
     "crowd_51", "crowd_52", "crowd_53", "crowd_54", "crowd_55",
     "crowd_56", "crowd_57", "crowd_58", "crowd_59", "crowd_60",
     "crowd_61", "crowd_62", "crowd_63", "crowd_64", "crowd_65",
     "crowd_66", "crowd_67", "crowd_68", "crowd_69", "crowd_70",
     "crowd_71", "crowd_72", "crowd_73", "crowd_74", "crowd_75",
     "crowd_76", "crowd_77", "crowd_78", "crowd_79", "crowd_80",
     "crowd_81", "crowd_82", "crowd_83", "crowd_84", "crowd_85",
     "crowd_86", "crowd_87", "crowd_88", "crowd_89", "crowd_90",
     "crowd_91", "crowd_92", "crowd_93", "crowd_94", "crowd_95",
     "crowd_96", "crowd_97", "crowd_98", "crowd_99"
  >>

CrowdNeeded == (GameGuessCap \div PlayerGuessCap) - 1

Repeat(x, n) == [i \in 1..n |-> x]

\* the log of earlier misses: PlayerGuessCap by each of the crowd, in turn,
\* then PlayerGuessCap - 1 by the player
NearCapLog(crowd, player, miss, height) ==
  [i \in 1..((Len(crowd) * PlayerGuessCap) + (PlayerGuessCap - 1)) |->
     IF i <= Len(crowd) * PlayerGuessCap
     THEN Attempt(crowd[((i - 1) \div PlayerGuessCap) + 1], miss, height)
     ELSE Attempt(player, miss, height)]

NearCapHistories(crowd, player, miss) ==
  [k \in {PlayerKey(0, crowd[i]) : i \in 1..Len(crowd)}
         \cup {PlayerKey(0, player)} |->
     IF k.player = player
     THEN Repeat(miss, PlayerGuessCap - 1)
     ELSE Repeat(miss, PlayerGuessCap)]

NearCapInit ==
  \E player \in Players, entryFee \in Fees, hash \in Seeds,
     crowd \in {<<>>, Crowd}, left \in 0..InitBalance,
     minNumber \in MinNumbers, maxNumber \in MaxNumbers :
    LET secret == SecretOf(hash, 1, minNumber, maxNumber)
        miss == (minNumber + maxNumber) - secret
        log == NearCapLog(crowd, player, miss, 1)
    IN /\ minNumber < maxNumber
       /\ Len(Crowd) = CrowdNeeded
       /\ totalGames = 1
       /\ games = MapSet(EmptyMap, 0,
            [NewGame("deployer", secret, minNumber, maxNumber, entryFee, 1)
               EXCEPT !.prizePool = Len(log) * entryFee,
                      !.guessCount = Len(log)])
       /\ playerGuesses = NearCapHistories(crowd, player, miss)
       /\ gameGuesses = MapSet(EmptyMap, 0, log)
       /\ balances =
            [p \in Principals \cup {crowd[i] : i \in 1..Len(crowd)} |->
               IF p = Contract THEN Len(log) * entryFee
               ELSE IF p = player THEN left
               ELSE IF p \in Players THEN InitBalance
               ELSE 0]
       /\ blockHeight = 1
       /\ prevHash = hash
       /\ payoutLog = <<>>
       /\ lastCall = [op |-> "guess", result |-> OkBool(FALSE),
                      event |-> NoEvent]
       /\ mempool = <<>>
       /\ driver = DriverOff

\* the successful calls of the history: the creation and the guesses
NearCapPrior ==
  1 + (PlayerGuessCap - 1)
    + (IF PlayerKey(0, Crowd[1]) \in DOMAIN playerGuesses
       THEN CrowdNeeded * PlayerGuessCap ELSE 0)

\* the game near its capacities is followed: MaxCalls further successful
\* guesses are made, and a failing guess can always be made
NearCapGuessCall ==
  \E sender \in Players, gameId \in GameIds, number \in GuessNumbers :
    /\ IsOk(GuessResponse(sender, gameId, number))
         => Calls < NearCapPrior + MaxCalls
    /\ Guess(sender, gameId, number)
    /\ UNCHANGED <<mempool, driver>>

NearCapNext == NearCapGuessCall \/ MineBlock

NearCapSpec == NearCapInit /\ [][NearCapNext]_vars

(***************************************************************************)
(* A third specification, for the derivation of the secret: games are      *)
(* created by any of the players, with any parameters, in any block.       *)
(***************************************************************************)
AnyoneCreateGameCall ==
  \E sender \in Players, minNumber \in MinNumbers, maxNumber \in MaxNumbers,
     entryFee \in Fees :
    /\ IsOk(CreateGameResponse(minNumber, maxNumber, entryFee))
         => Calls < MaxCalls
    /\ CreateGame(sender, minNumber, maxNumber, entryFee)
    /\ UNCHANGED <<mempool, driver>>

CreationNext == AnyoneCreateGameCall \/ MineBlock

CreationSpec == Init /\ [][CreationNext]_vars

(***************************************************************************)
(* A fourth specification, for the arithmetic of create-game: the deployer *)
(* creates games whose bounds lie at the ends of the unsigned integers.    *)
(***************************************************************************)
WideMinNumbers == {0, 1, UintMax}
WideMaxNumbers == {0, UintMax}

WideCreateGameCall ==
  \E sender \in Creators, minNumber \in WideMinNumbers,
     maxNumber \in WideMaxNumbers, entryFee \in Fees :
    /\ IsOk(CreateGameResponse(minNumber, maxNumber, entryFee))
         => Calls < MaxCalls
    /\ CreateGame(sender, minNumber, maxNumber, entryFee)
    /\ UNCHANGED <<mempool, driver>>

WideNext == WideCreateGameCall \/ MineBlock

WideSpec == Init /\ [][WideNext]_vars

(***************************************************************************)
(* The off-chain driver (the TypeScript part of the file).  It runs in one *)
(* of its modes with the key of the deployer: it reads get-total-games     *)
(* with readTotalGames, and it builds and broadcasts transactions with     *)
(* contractCall.  The driver rests at every await, and the chain and the   *)
(* SIGINT handler run in between.  The node puts a broadcast that it       *)
(* accepts into the mempool before the driver has the answer, and the      *)
(* answer may be lost; the chain mines the transactions of the mempool in  *)
(* order, and mining one executes its call on the contract.                *)
(***************************************************************************)
MaxRetries == 5
BackoffMs == 2000

DriverModes == {"create", "guess", "full"}
DriverSender == "deployer"
TxIds == {"tx_a", "tx_b"}

\* the games the driver creates: 1 to 100, with a fee of one unit
DriverMinNumber == 1
DriverMaxNumber == 100
DriverFee == 1

\* the ends of Math.floor(Math.random() * 100) + 1
DriverGuessNumbers == {DriverMinNumber, DriverMaxNumber}

\* JavaScript values and the operator ===
JsNumber(n) == [t |-> "number", n |-> n, s |-> ""]
JsString(s) == [t |-> "string", n |-> 0, s |-> s]
StrictEquals(a, b) == a.t = b.t /\ a.n = b.n /\ a.s = b.s

\* the field type of a Clarity value, as the library tags it: a response is
\* tagged ok or err, whatever it holds
ClarityTypeOf(cv) ==
  JsString(IF cv.kind \in {"ok", "err"} THEN cv.kind ELSE cv.type)

\* what readTotalGames makes of the value that the read-only call returned
TotalGamesFrom(res) ==
  IF StrictEquals(ClarityTypeOf(res), JsNumber(1)) THEN res.val ELSE 0

\* what broadcastTransaction gives: an exception, the text of a transaction
\* id, or an object with a transaction id and, when the node rejected the
\* transaction, an error
BroadcastThrows == [kind |-> "throws", txid |-> "", error |-> ""]
BroadcastText(txid) == [kind |-> "string", txid |-> txid, error |-> ""]
BroadcastOk(txid) == [kind |-> "object", txid |-> txid, error |-> ""]
BroadcastRejected(txid) ==
  [kind |-> "object", txid |-> txid, error |-> "transaction rejected"]

\* an object with none of the id fields and no error, as a reply that is
\* not from the node parses to
BroadcastBare == [kind |-> "object", txid |-> "", error |-> ""]

\* the text itself, or the first of the id fields of the object that is set
TxidOf(resp) ==
  IF resp.kind = "string" THEN resp.txid
  ELSE IF resp.txid # "" THEN resp.txid
  ELSE "unknown-txid"

\* the attempt ends in the catch block
AttemptFails(resp) == resp.kind = "throws" \/ resp.error # ""

\* after a failed attempt the driver waits, unless it was the last one
NeedsDelay(i) == i < MaxRetries - 1

\* the test of the for loop
LoopContinues(i) == i < MaxRetries

\* the driver enters one of its two retrying functions
StartContractCall(fn, args) ==
  [driver EXCEPT !.pc = "call", !.fn = fn, !.args = args, !.i = 0,
                 !.broadcasts = 0, !.slept = 0, !.result = "none",
                 !.node = NoVerdict]

StartReadTotalGames ==
  [driver EXCEPT !.pc = "read", !.fn = "get-total-games", !.args = <<>>,
                 !.i = 0, !.broadcasts = 0, !.slept = 0, !.result = "none",
                 !.total = 0, !.node = NoVerdict]

\* the random wait at the top of the loop of a mode
DriverAtLoop(mode) ==
  [mode |-> mode, pc |-> "loop", fn |-> "none", args |-> <<>>, i |-> 0,
   broadcasts |-> 0, slept |-> 0, result |-> "none", total |-> 0,
   node |-> NoVerdict, aborted |-> FALSE]

\* the loop of a mode has ended
DriverStopped(mode) ==
  [DriverAtLoop(mode) EXCEPT !.pc = "stopped", !.aborted = TRUE]

\* while (keepRunning): the next round of the loop, or its end after SIGINT
NextRound ==
  IF driver.aborted THEN DriverStopped(driver.mode)
  ELSE DriverAtLoop(driver.mode)

\* the position after a failed attempt of the function whose attempts are
\* made at the position again: the wait, the next attempt or the throw
AfterFailedAttempt(again) ==
  IF NeedsDelay(driver.i)
  THEN [driver EXCEPT !.pc = again \o "Backoff", !.node = NoVerdict]
  ELSE [driver EXCEPT !.i = @ + 1, !.node = NoVerdict,
                      !.pc = IF LoopContinues(driver.i + 1) THEN again
                             ELSE again \o "Thrown"]

AfterBackoff(again) ==
  [driver EXCEPT !.slept = @ + BackoffMs, !.i = @ + 1,
                 !.pc = IF LoopContinues(driver.i + 1) THEN again
                        ELSE again \o "Thrown"]

contract == <<totalGames, games, playerGuesses, gameGuesses, balances,
              blockHeight, prevHash, payoutLog, lastCall>>

\* runCreateMode, runGuessMode, runFullMode: after the random wait the
\* driver creates a game, or reads the number of games in order to guess
DriverLoop ==
  /\ driver.pc = "loop"
  /\ \E action \in IF driver.mode = "full" THEN {"create", "guess"}
                   ELSE {driver.mode} :
       driver' = IF action = "create"
                 THEN StartContractCall("create-game",
                        <<DriverMinNumber, DriverMaxNumber, DriverFee>>)
                 ELSE StartReadTotalGames
  /\ UNCHANGED <<contract, mempool>>

\* SIGINT: the handler aborts the stop signal.  A pending random wait is
\* rejected and the loop ends; elsewhere the loop ends at its next test.
Sigint ==
  /\ driver.pc \notin {"off", "stopped"}
  /\ ~driver.aborted
  /\ driver' = IF driver.pc = "loop" THEN DriverStopped(driver.mode)
                ELSE [driver EXCEPT !.aborted = TRUE]
  /\ UNCHANGED <<contract, mempool>>

\* the node evaluates the read-only call of readTotalGames on the state
\* of the contract at that moment
NodeEvaluatesRead ==
  /\ driver.pc = "read"
  /\ driver.node = NoVerdict
  /\ driver' = [driver EXCEPT
                  !.node = [NoVerdict EXCEPT !.verdict = "evaluated",
                                             !.res = GetTotalGames]]
  /\ UNCHANGED <<contract, mempool>>

\* readTotalGames, the await of an attempt: the read-only call gives the
\* value that the node computed, or it throws
ReadTotalGamesAttempt ==
  /\ driver.pc = "read"
  /\ \E fetched \in BOOLEAN :
       /\ fetched => driver.node.verdict = "evaluated"
       /\ driver' = IF fetched
                    THEN [driver EXCEPT !.pc = "readReturned",
                                        !.total = TotalGamesFrom(driver.node.res)]
                    ELSE AfterFailedAttempt("read")
  /\ UNCHANGED <<contract, mempool>>

ReadTotalGamesBackoff ==
  /\ driver.pc = "readBackoff"
  /\ driver' = AfterBackoff("read")
  /\ UNCHANGED <<contract, mempool>>

\* the caller of readTotalGames: without a game, or after a throw, it goes
\* round the loop; otherwise it guesses on the game total - 1
AfterReadTotalGames ==
  /\ driver.pc \in {"readReturned", "readThrown"}
  /\ IF driver.pc = "readThrown" \/ driver.total = 0
     THEN driver' = NextRound
     ELSE \E guessNum \in DriverGuessNumbers :
            driver' = StartContractCall("guess",
                                        <<driver.total - 1, guessNum>>)
  /\ UNCHANGED <<contract, mempool>>

\* the answers that broadcastTransaction can give after what the node did
AnswersFor(node) ==
  {BroadcastThrows, BroadcastBare}
    \cup (IF node.verdict = "taken"
          THEN {BroadcastOk(node.txid), BroadcastText(node.txid)}
          ELSE IF node.verdict = "rejected"
          THEN {BroadcastRejected(node.txid)}
          ELSE {})

\* contractCall, first await of an attempt: makeContractCall resolves, and
\* the transaction is handed to broadcastTransaction, or it throws
ContractCallBuild ==
  /\ driver.pc = "call"
  /\ \E built \in BOOLEAN :
       driver' = IF built
                 THEN [driver EXCEPT !.pc = "broadcast",
                                     !.broadcasts = @ + 1]
                 ELSE AfterFailedAttempt("call")
  /\ UNCHANGED <<contract, mempool>>

\* the node receives the broadcast: it takes the transaction into its
\* mempool or rejects it.  It takes transactions only while fewer than
\* MaxCalls calls have succeeded or are waiting to be mined.
NodeReceivesBroadcast ==
  /\ driver.pc = "broadcast"
  /\ driver.node = NoVerdict
  /\ \E taken \in BOOLEAN, txid \in TxIds :
       /\ taken => Calls + Len(mempool) < MaxCalls
       /\ driver' = [driver EXCEPT
                       !.node = [NoVerdict EXCEPT
                                   !.verdict = IF taken THEN "taken"
                                               ELSE "rejected",
                                   !.txid = txid]]
       /\ mempool' = IF taken
                     THEN Append(mempool, [txid |-> txid, fn |-> driver.fn,
                                           args |-> driver.args])
                     ELSE mempool
  /\ UNCHANGED contract

\* contractCall, second await of an attempt: broadcastTransaction gives
\* its answer or throws, whether or not the node has the transaction
ContractCallAnswer ==
  /\ driver.pc = "broadcast"
  /\ \E resp \in AnswersFor(driver.node) :
       driver' = IF AttemptFails(resp)
                 THEN AfterFailedAttempt("call")
                 ELSE [driver EXCEPT !.pc = "callReturned",
                                     !.result = TxidOf(resp)]
  /\ UNCHANGED <<contract, mempool>>

ContractCallBackoff ==
  /\ driver.pc = "callBackoff"
  /\ driver' = AfterBackoff("call")
  /\ UNCHANGED <<contract, mempool>>

\* the caller of contractCall logs a throw and goes round the loop
AfterContractCall ==
  /\ driver.pc \in {"callReturned", "callThrown"}
  /\ driver' = NextRound
  /\ UNCHANGED <<contract, mempool>>

\* the chain mines the oldest transaction of the mempool
MineTx ==
  /\ mempool # <<>>
  /\ LET tx == Head(mempool)
     IN IF tx.fn = "create-game"
        THEN /\ CreateGame(DriverSender, tx.args[1], tx.args[2], tx.args[3])
        ELSE /\ Guess(DriverSender, tx.args[1], tx.args[2])
  /\ mempool' = Tail(mempool)
  /\ UNCHANGED driver

DriverInit ==
  /\ totalGames = 0
  /\ games = EmptyMap
  /\ playerGuesses = EmptyMap
  /\ gameGuesses = EmptyMap
  /\ balances = [p \in Principals |-> IF p = Contract THEN 0 ELSE InitBalance]
  /\ blockHeight = 1
  /\ prevHash \in Seeds
  /\ payoutLog = <<>>
  /\ lastCall = [op |-> "deploy", result |-> OkBool(TRUE), event |-> NoEvent]
  /\ mempool = <<>>
  /\ \E mode \in DriverModes : driver = DriverAtLoop(mode)

DriverNext ==
  \/ DriverLoop
  \/ Sigint
  \/ NodeEvaluatesRead
  \/ ReadTotalGamesAttempt
  \/ ReadTotalGamesBackoff
  \/ AfterReadTotalGames
  \/ ContractCallBuild
  \/ NodeReceivesBroadcast
  \/ ContractCallAnswer
  \/ ContractCallBackoff
  \/ AfterContractCall
  \/ MineTx
  \/ MineBlock

DriverSpec == DriverInit /\ [][DriverNext]_vars

\* every awaited promise of the two retrying functions settles
DriverFairSpec ==
  /\ DriverSpec
  /\ WF_vars(ContractCallBuild)
  /\ WF_vars(ContractCallAnswer)
  /\ WF_vars(ContractCallBackoff)
  /\ WF_vars(ReadTotalGamesAttempt)
  /\ WF_vars(ReadTotalGamesBackoff)

(***************************************************************************)
(* Helpers of the properties                                               *)
(***************************************************************************)
Known(gameId) == gameId \in DOMAIN games

\* the state a failed call must leave alone
ledger == <<totalGames, games, playerGuesses, gameGuesses, balances,
            payoutLog>>

\* number of transfers out of custody made for a game
RECURSIVE PayoutsIn(_, _)
PayoutsIn(log, gameId) ==
  IF log = <<>> THEN 0
  ELSE (IF Head(log).gameId = gameId THEN 1 ELSE 0)
       + PayoutsIn(Tail(log), gameId)

\* a step that is a call of the entry point (a block leaves lastCall alone)
CallStep(op) == blockHeight' = blockHeight /\ lastCall'.op = op

BecomesWon(gameId) ==
  /\ Known(gameId)
  /\ games[gameId].status = "active"
  /\ games'[gameId].status = "won"

(***************************************************************************)
(* C1: a winning guess is atomic.  A successful guess of the secret on an  *)
(* Active game sets status=Won, winner=caller, prizePool=0, guessCount+1,  *)
(* pays the caller exactly (previous prizePool + entryFee) out of custody  *)
(* and returns Ok(true); and no step shows only a part of these effects:   *)
(* a step that makes a game Won, sets a winner or pays out does all three. *)
(***************************************************************************)
C1_WinEffects(sender, gameId) ==
  /\ games'[gameId].status = "won"
  /\ games'[gameId].winner = sender
  /\ games'[gameId].prizePool = 0
  /\ games'[gameId].guessCount = games[gameId].guessCount + 1
  /\ payoutLog' = Append(payoutLog,
       [gameId |-> gameId, to |-> sender,
        amount |-> games[gameId].prizePool + games[gameId].entryFee])
  /\ balances'[sender] = balances[sender] + games[gameId].prizePool
  /\ balances'[Contract] = balances[Contract] - games[gameId].prizePool
  /\ IsOkBool(lastCall'.result, TRUE)

C1_WinningGuessAtomic ==
  [][/\ (CallStep("guess") /\ IsOk(lastCall'.result))
          => \A gameId \in DOMAIN games :
               games[gameId].status = "active"
                 => \A sender \in Players :
                      Guess(sender, gameId, games[gameId].secretNumber)
                        => C1_WinEffects(sender, gameId)
     /\ \A gameId \in DOMAIN games :
          (\/ games'[gameId].status # games[gameId].status
           \/ games'[gameId].winner # games[gameId].winner
           \/ games'[gameId].prizePool < games[gameId].prizePool
           \/ PayoutsIn(payoutLog', gameId) # PayoutsIn(payoutLog, gameId))
          => \E sender \in Players : C1_WinEffects(sender, gameId)]_vars

\* a game was just won with a pool that held an earlier fee
C1_Witness ==
  /\ lastCall.op = "guess"
  /\ IsOkBool(lastCall.result, TRUE)
  /\ lastCall.event.prize = 2
  /\ \E g \in DOMAIN games :
       games[g].status = "won" /\ games[g].guessCount = 2

(***************************************************************************)
(* C2: once a game is Won, every later guess on it, by any caller and with *)
(* any number, fails with GameAlreadyWon(102) and leaves the game record,  *)
(* both guess histories and all balances unchanged.                        *)
(***************************************************************************)
C2_GuessOnWonGameFails ==
  [][CallStep("guess")
       => \A gameId \in DOMAIN games :
            games[gameId].status = "won"
              => \A sender \in Players, number \in GuessNumbers :
                   Guess(sender, gameId, number)
                     => /\ IsErr(lastCall'.result, ERR_GAME_ALREADY_WON)
                        /\ UNCHANGED ledger]_vars

\* a guess was just refused with 102
C2_Witness ==
  /\ lastCall.op = "guess"
  /\ IsErr(lastCall.result, ERR_GAME_ALREADY_WON)
  /\ \E g \in DOMAIN games : games[g].status = "won"

(***************************************************************************)
(* C3: in every reachable state no game is Won with a nonzero prizePool.   *)
(***************************************************************************)
C3_WonGameHasEmptyPool ==
  \A g \in DOMAIN games : ~(games[g].status = "won" /\ games[g].prizePool # 0)

\* a Won game whose pool had grown to 2 before it was paid out
C3_Witness ==
  \E g \in DOMAIN games :
    /\ games[g].status = "won"
    /\ games[g].prizePool = 0
    /\ \E i \in DOMAIN payoutLog :
         payoutLog[i].gameId = g /\ payoutLog[i].amount = 2

(***************************************************************************)
(* C4: for every game, status goes from Active to Won at most once and     *)
(* never back; winner is absent exactly while status=Active, is set in the *)
(* step of the Active->Won transition and never changes afterwards.        *)
(***************************************************************************)
C4_StatusAndWinnerAgree ==
  \A g \in DOMAIN games :
    /\ games[g].status \in {"active", "won"}
    /\ (games[g].status = "active") <=> (games[g].winner = "none")

C4_StatusStep ==
  \A g \in DOMAIN games :
    /\ g \in DOMAIN games'
    /\ games[g].status = "won"
         => /\ games'[g].status = "won"
            /\ games'[g].winner = games[g].winner
    /\ games'[g].winner # games[g].winner
         => /\ games[g].status = "active"
            /\ games'[g].status = "won"
            /\ games'[g].winner \in Players

C4_WonOnceAndForAll ==
  /\ []C4_StatusAndWinnerAgree
  /\ [][C4_StatusStep]_vars

\* a Won game with its winner, after a later call on it was refused
C4_Witness ==
  /\ \E g \in DOMAIN games :
       games[g].status = "won" /\ games[g].winner \in Players
  /\ lastCall.op = "guess"
  /\ lastCall.result.kind = "err"

(***************************************************************************)
(* C5: for every game at most one transfer out of custody is ever made,    *)
(* and it is made in the step that takes the game from Active to Won.      *)
(***************************************************************************)
C5_PayoutStep ==
  /\ \A i \in DOMAIN payoutLog' : Known(payoutLog'[i].gameId)
  /\ \A g \in DOMAIN games :
       /\ PayoutsIn(payoutLog', g) <= 1
       /\ PayoutsIn(payoutLog', g) # PayoutsIn(payoutLog, g) => BecomesWon(g)

C5_AtMostOnePayout == [][C5_PayoutStep]_vars

\* a payout was made and a later guess on the same game was refused
C5_Witness ==
  /\ Len(payoutLog) = 1
  /\ games[payoutLog[1].gameId].status = "won"
  /\ lastCall.op = "guess"
  /\ IsErr(lastCall.result, ERR_GAME_ALREADY_WON)

(***************************************************************************)
(* C6: a successful non-winning guess (number in range, not the secret) on *)
(* an Active game with entry fee F and pool P leaves prizePool = P+F,      *)
(* guessCount increased by exactly 1, status Active, winner absent, and    *)
(* returns Ok(false).                                                      *)
(***************************************************************************)
C6_MissEffects(gameId) ==
  /\ games'[gameId].prizePool =
       games[gameId].prizePool + games[gameId].entryFee
  /\ games'[gameId].guessCount = games[gameId].guessCount + 1
  /\ games'[gameId].status = "active"
  /\ games'[gameId].winner = "none"
  /\ IsOkBool(lastCall'.result, FALSE)

C6_MissedGuessGrowsPool ==
  [][(CallStep("guess") /\ IsOk(lastCall'.result))
       => \A gameId \in DOMAIN games :
            games[gameId].status = "active"
              => \A sender \in Players, number \in GuessNumbers :
                   (/\ number >= games[gameId].minNumber
                    /\ number <= games[gameId].maxNumber
                    /\ number # games[gameId].secretNumber
                    /\ Guess(sender, gameId, number))
                   => C6_MissEffects(gameId)]_vars

\* a guess was just missed on a game with a fee, and the pool holds the fee
C6_Witness ==
  /\ lastCall.op = "guess"
  /\ IsOkBool(lastCall.result, FALSE)
  /\ \E g \in DOMAIN games :
       /\ games[g].entryFee = 1
       /\ games[g].prizePool = 1
       /\ games[g].guessCount = 1
       /\ games[g].status = "active"

(***************************************************************************)
(* C7: every game ever created has minNumber <= secretNumber <= maxNumber  *)
(* in every reachable state.                                               *)
(***************************************************************************)
C7_SecretInRange ==
  \A g \in DOMAIN games :
    /\ games[g].minNumber <= games[g].secretNumber
    /\ games[g].secretNumber <= games[g].maxNumber

\* a game over a range of two numbers whose secret is the upper one
C7_Witness ==
  \E g \in DOMAIN games :
    /\ games[g].minNumber < games[g].maxNumber
    /\ games[g].secretNumber = games[g].maxNumber

(***************************************************************************)
(* C8: create-game(min, max, fee) with min > max always returns the error  *)
(* InvalidParams(105) and leaves the game counter and the game records     *)
(* unchanged.                                                              *)
(***************************************************************************)
C8_InvalidRangeReturns105 ==
  [][CallStep("create-game")
       => \A sender \in Creators, minNumber \in MinNumbers,
             maxNumber \in MaxNumbers, entryFee \in Fees :
            (/\ minNumber > maxNumber
             /\ CreateGame(sender, minNumber, maxNumber, entryFee))
            => /\ IsErr(lastCall'.result, ERR_INVALID_PARAMS)
               /\ UNCHANGED <<totalGames, games>>]_vars

(***************************************************************************)
(* C9 as claimed: create-game(min, max, fee) with min equal to max fails   *)
(* with ERR_INVALID_PARAMS (105) and creates no game.                      *)
(***************************************************************************)
C9_EqualRangeRejected ==
  [][CallStep("create-game")
       => \A sender \in Creators, k \in MinNumbers \cap MaxNumbers,
             entryFee \in Fees :
            CreateGame(sender, k, k, entryFee)
              => /\ IsErr(lastCall'.result, ERR_INVALID_PARAMS)
                 /\ UNCHANGED <<totalGames, games>>]_vars

(***************************************************************************)
(* C9 as amended: create-game(min, max, fee) with min equal to max         *)
(* succeeds: it returns Ok(id) with id the next game id and creates an     *)
(* Active game over [min, min] whose secretNumber is min.                  *)
(***************************************************************************)
C9_EqualRangeAccepted ==
  [][CallStep("create-game")
       => \A sender \in Creators, k \in MinNumbers \cap MaxNumbers,
             entryFee \in Fees :
            CreateGame(sender, k, k, entryFee)
              => /\ IsOkUint(lastCall'.result, totalGames)
                 /\ totalGames' = totalGames + 1
                 /\ DOMAIN games' = DOMAIN games \cup {totalGames}
                 /\ games'[totalGames].minNumber = k
                 /\ games'[totalGames].maxNumber = k
                 /\ games'[totalGames].secretNumber = k
                 /\ games'[totalGames].status = "active"]_vars

\* a game over a single number was just created
C9_Witness ==
  /\ lastCall.op = "create-game"
  /\ IsOkUint(lastCall.result, totalGames - 1)
  /\ totalGames >= 1
  /\ games[totalGames - 1].minNumber = games[totalGames - 1].maxNumber

(***************************************************************************)
(* C10: create-game(k, k, fee) with fee > 0 succeeds and stores            *)
(* secretNumber = k; a following guess(gameId, k) by a caller able to pay  *)
(* the fee returns Ok(true), sets winner to that caller, status to Won,    *)
(* prizePool to 0, and pays the caller exactly fee.                        *)
(***************************************************************************)
C10_CreateStep ==
  CallStep("create-game")
    => \A sender \in Creators, k \in MinNumbers \cap MaxNumbers,
          entryFee \in Fees \ {0} :
         CreateGame(sender, k, k, entryFee)
           => /\ IsOk(lastCall'.result)
              /\ games'[totalGames].secretNumber = k
              /\ games'[totalGames].entryFee = entryFee

C10_GuessStep ==
  CallStep("guess")
    => \A gameId \in DOMAIN games :
         (/\ games[gameId].minNumber = games[gameId].maxNumber
          /\ games[gameId].entryFee > 0
          /\ games[gameId].status = "active")
         => \A sender \in Players :
              (/\ balances[sender] >= games[gameId].entryFee
               /\ Guess(sender, gameId, games[gameId].minNumber))
              => /\ IsOkBool(lastCall'.result, TRUE)
                 /\ games'[gameId].winner = sender
                 /\ games'[gameId].status = "won"
                 /\ games'[gameId].prizePool = 0
                 /\ payoutLog' = Append(payoutLog,
                      [gameId |-> gameId, to |-> sender,
                       amount |-> games[gameId].entryFee])
                 /\ lastCall'.event =
                      GameWonEvent(gameId, sender, games[gameId].entryFee)

C10_DeterministicGameIsWon == [][C10_CreateStep /\ C10_GuessStep]_vars

\* the single number of a game with a fee was just guessed: the payout is the fee
C10_Witness ==
  /\ lastCall.op = "guess"
  /\ IsOkBool(lastCall.result, TRUE)
  /\ lastCall.event.prize = 1
  /\ \E g \in DOMAIN games :
       /\ games[g].minNumber = games[g].maxNumber
       /\ games[g].entryFee = 1
       /\ games[g].status = "won"
       /\ games[g].guessCount = 1
       /\ lastCall.event.gameId = g

(***************************************************************************)
(* C11: the ids returned by successful create-game calls are 0, 1, 2, ...  *)
(* in call order without gaps or repeats; in every reachable state         *)
(* get-total-games is the number of successful creations so far and a game *)
(* record exists for exactly the ids below it; failed creations and all    *)
(* guess calls leave the counter unchanged.                                *)
(***************************************************************************)
C11_IdsBelowCounter ==
  /\ DOMAIN games = 0..(totalGames - 1)
  /\ GetTotalGames = OkUint(Cardinality(DOMAIN games))

\* a successful creation returns the counter as the id, stores the record
\* under it and advances the counter by one; no other step moves the counter
C11_CounterStep ==
  IF CallStep("create-game") /\ IsOk(lastCall'.result)
  THEN /\ lastCall'.result = GetTotalGames
       /\ totalGames \notin DOMAIN games
       /\ DOMAIN games' = DOMAIN games \cup {totalGames}
       /\ totalGames' = totalGames + 1
  ELSE /\ totalGames' = totalGames
       /\ DOMAIN games' = DOMAIN games

C11_SequentialIds ==
  /\ []C11_IdsBelowCounter
  /\ [][C11_CounterStep]_vars

\* the second game was just created, with id 1, after a guess on the first
C11_Witness ==
  /\ totalGames = 2
  /\ lastCall.op = "create-game"
  /\ IsOkUint(lastCall.result, 1)
  /\ Len(CurrentGuesses(0)) = 1

(***************************************************************************)
(* C12: guess(gameId, number) on an existing Active game with              *)
(* number < minNumber or number > maxNumber fails with InvalidGuess(103)   *)
(* and leaves prizePool, guessCount, both guess histories and all balances *)
(* unchanged.                                                              *)
(***************************************************************************)
C12_OutOfRangeGuessFails ==
  [][CallStep("guess")
       => \A gameId \in DOMAIN games :
            games[gameId].status = "active"
              => \A sender \in Players, number \in GuessNumbers :
                   (/\ \/ number < games[gameId].minNumber
                       \/ number > games[gameId].maxNumber
                    /\ Guess(sender, gameId, number))
                   => /\ IsErr(lastCall'.result, ERR_INVALID_GUESS)
                      /\ UNCHANGED ledger]_vars

\* a guess was just refused with 103 on a game that holds a fee
C12_Witness ==
  /\ lastCall.op = "guess"
  /\ IsErr(lastCall.result, ERR_INVALID_GUESS)
  /\ \E g \in DOMAIN games :
       /\ games[g].status = "active"
       /\ games[g].prizePool = 1
       /\ games[g].guessCount = 1

(***************************************************************************)
(* C13: guess(gameId, number) with a gameId for which no game was created  *)
(* fails with GameNotFound(101), for every number and caller, and changes  *)
(* no game record, history, counter or balance.                            *)
(***************************************************************************)
C13_UnknownGameFails ==
  [][CallStep("guess")
       => \A gameId \in GameIds \ DOMAIN games :
            \A sender \in Players, number \in GuessNumbers :
              Guess(sender, gameId, number)
                => /\ IsErr(lastCall'.result, ERR_GAME_NOT_FOUND)
                   /\ UNCHANGED ledger]_vars

\* a guess was just refused with 101 while another game holds a fee
C13_Witness ==
  /\ lastCall.op = "guess"
  /\ IsErr(lastCall.result, ERR_GAME_NOT_FOUND)
  /\ \E g \in DOMAIN games : games[g].prizePool = 1

(***************************************************************************)
(* C14 as claimed: when a player already has 10 recorded guesses on a      *)
(* game, that player's next guess on that game (whether or not it matches  *)
(* the secret) fails with TooManyGuesses(108); the player's 10 recorded    *)
(* guesses, the game record and the game log are unchanged, and the        *)
(* caller's balance and the custody balance are as before the call.        *)
(***************************************************************************)
C14_EleventhGuessFails ==
  [][CallStep("guess")
       => \A gameId \in DOMAIN games, sender \in Players :
            Len(PlayerGuessList(gameId, sender)) = PlayerGuessCap
              => \A number \in GuessNumbers :
                   Guess(sender, gameId, number)
                     => /\ IsErr(lastCall'.result, ERR_TOO_MANY_GUESSES)
                        /\ UNCHANGED ledger]_vars

(***************************************************************************)
(* C14 as amended: when a player already has 10 recorded guesses on an     *)
(* Active game, that player's next guess on that game with a number in     *)
(* the range (whether or not it matches the secret), made while the player *)
(* can pay the entry fee, fails with TooManyGuesses(108); the player's 10  *)
(* recorded guesses, the game record and the game log are unchanged, and   *)
(* the caller's balance and the custody balance are as before the call.    *)
(***************************************************************************)
C14_EleventhValidGuessFails ==
  [][CallStep("guess")
       => \A gameId \in DOMAIN games, sender \in Players :
            (/\ Len(PlayerGuessList(gameId, sender)) = PlayerGuessCap
             /\ games[gameId].status = "active"
             /\ balances[sender] >= games[gameId].entryFee)
            => \A number \in GuessNumbers :
                 (/\ number >= games[gameId].minNumber
                  /\ number <= games[gameId].maxNumber
                  /\ Guess(sender, gameId, number))
                 => /\ IsErr(lastCall'.result, ERR_TOO_MANY_GUESSES)
                    /\ UNCHANGED ledger]_vars

\* a guess was just refused with 108 on a game with a fee whose log has room,
\* by a player who has 10 guesses on it and could pay
C14_Witness ==
  /\ lastCall.op = "guess"
  /\ IsErr(lastCall.result, ERR_TOO_MANY_GUESSES)
  /\ games[0].status = "active"
  /\ games[0].entryFee = 1
  /\ Len(CurrentGuesses(0)) < GameGuessCap
  /\ \E p \in Players :
       /\ Len(PlayerGuessList(0, p)) = PlayerGuessCap
       /\ balances[p] >= 1
  /\ balances[Contract] = games[0].prizePool

(***************************************************************************)
(* C15 as claimed: when a game's guess log already holds 1000 attempts,    *)
(* every further guess on that game by any player fails with               *)
(* TooManyGuesses(108) and changes nothing, including the per-player       *)
(* history that is written before the game log in the same call.           *)
(***************************************************************************)
C15_FullLogRefusesGuess ==
  [][CallStep("guess")
       => \A gameId \in DOMAIN games :
            Len(CurrentGuesses(gameId)) = GameGuessCap
              => \A sender \in Players, number \in GuessNumbers :
                   Guess(sender, gameId, number)
                     => /\ IsErr(lastCall'.result, ERR_TOO_MANY_GUESSES)
                        /\ UNCHANGED ledger]_vars

(***************************************************************************)
(* C15 as amended: when the guess log of an Active game already holds 1000 *)
(* attempts, every further guess on that game with a number in the range,  *)
(* by any player who can pay the entry fee, fails with TooManyGuesses(108) *)
(* and changes nothing, including the per-player history that is written   *)
(* before the game log in the same call.                                   *)
(***************************************************************************)
C15_FullLogRefusesValidGuess ==
  [][CallStep("guess")
       => \A gameId \in DOMAIN games :
            (/\ Len(CurrentGuesses(gameId)) = GameGuessCap
             /\ games[gameId].status = "active")
            => \A sender \in Players, number \in GuessNumbers :
                 (/\ balances[sender] >= games[gameId].entryFee
                  /\ number >= games[gameId].minNumber
                  /\ number <= games[gameId].maxNumber
                  /\ Guess(sender, gameId, number))
                 => /\ IsErr(lastCall'.result, ERR_TOO_MANY_GUESSES)
                    /\ UNCHANGED ledger]_vars

\* a guess was just refused with 108 on a game with a fee whose log is full,
\* while every player has room in their own list and can pay
C15_Witness ==
  /\ lastCall.op = "guess"
  /\ IsErr(lastCall.result, ERR_TOO_MANY_GUESSES)
  /\ games[0].status = "active"
  /\ games[0].entryFee = 1
  /\ Len(CurrentGuesses(0)) = GameGuessCap
  /\ \A p \in Players :
       /\ Len(PlayerGuessList(0, p)) < PlayerGuessCap
       /\ balances[p] >= 1

(***************************************************************************)
(* C16: guess on an Active game with entryFee > 0 and a number in the      *)
(* range, made by a caller whose balance is smaller than entryFee, fails   *)
(* with the error code TransferFailed(104) and leaves the game record,     *)
(* both histories and all balances unchanged.                              *)
(***************************************************************************)
C16_UnpaidFeeReturns104 ==
  [][CallStep("guess")
       => \A gameId \in DOMAIN games :
            (/\ games[gameId].status = "active"
             /\ games[gameId].entryFee > 0)
            => \A sender \in Players, number \in GuessNumbers :
                 (/\ balances[sender] < games[gameId].entryFee
                  /\ number >= games[gameId].minNumber
                  /\ number <= games[gameId].maxNumber
                  /\ Guess(sender, gameId, number))
                 => /\ IsErr(lastCall'.result, ERR_TRANSFER_FAILED)
                    /\ UNCHANGED ledger]_vars

(***************************************************************************)
(* C17: a game created with entryFee = 0 can be won.  On an Active         *)
(* zero-fee game, a guess equal to secretNumber by a player below the      *)
(* capacity limits succeeds with Ok(true), sets status=Won and             *)
(* winner=caller, and pays finalPool = prizePool + 0 to the caller.        *)
(***************************************************************************)
C17_ZeroFeeGameCanBeWon ==
  [][CallStep("guess")
       => \A gameId \in DOMAIN games :
            (/\ games[gameId].status = "active"
             /\ games[gameId].entryFee = 0
             /\ Len(CurrentGuesses(gameId)) < GameGuessCap)
            => \A sender \in Players :
                 (/\ Len(PlayerGuessList(gameId, sender)) < PlayerGuessCap
                  /\ Guess(sender, gameId, games[gameId].secretNumber))
                 => /\ IsOkBool(lastCall'.result, TRUE)
                    /\ games'[gameId].status = "won"
                    /\ games'[gameId].winner = sender
                    /\ payoutLog' = Append(payoutLog,
                         [gameId |-> gameId, to |-> sender,
                          amount |-> games[gameId].prizePool])]_vars

(***************************************************************************)
(* C18: the secret number of a game is hidden until the game ends.  For    *)
(* any two states that differ only in the secretNumber of an Active game,  *)
(* every public read-only entry point (get-game-info, get-game-winner,     *)
(* get-guess-count, get-prize-pool, get-total-games, is-game-active,       *)
(* get-player-guesses) returns the same result in both.                    *)
(***************************************************************************)
\* the results of the read-only entry points that read the map games, for
\* every game id; get-total-games and get-player-guesses read only
\* total-games and player-guesses, which the two states share
C18_ReadOnlyResults(gameMap) ==
  [gameId \in GameIds |->
     <<GetGameInfo(gameMap, gameId), GetGameWinner(gameMap, gameId),
       GetGuessCount(gameMap, gameId), GetPrizePool(gameMap, gameId),
       IsGameActive(gameMap, gameId), GetTotalGames,
       [player \in Players |-> GetPlayerGuesses(gameId, player)]>>]

C18_SecretHiddenWhileActive ==
  \A gameId \in DOMAIN games :
    games[gameId].status = "active"
      => \A other \in games[gameId].minNumber..games[gameId].maxNumber :
           C18_ReadOnlyResults([games EXCEPT ![gameId].secretNumber = other])
             = C18_ReadOnlyResults(games)

(***************************************************************************)
(* C19: the secret is a deterministic function of only (hash of the        *)
(* previous block, current block height, minNumber, maxNumber):            *)
(* secret = minNumber + ((hash XOR height) mod (maxNumber - minNumber + 1)); *)
(* it does not depend on the creator, the entry fee, the game id or any    *)
(* stored state, so two create-game calls with the same range in the same  *)
(* block get the same secret.                                              *)
(***************************************************************************)
C19_SecretStep ==
  (CallStep("create-game") /\ IsOk(lastCall'.result))
    => LET game == games'[totalGames]
       IN game.secretNumber =
            game.minNumber
              + (Xor(prevHash, blockHeight)
                   % ((game.maxNumber - game.minNumber) + 1))

\* the height changes with every block, so games created at the same height
\* were created in the same block
C19_SameBlockSameSecret ==
  \A g1 \in DOMAIN games, g2 \in DOMAIN games :
    (/\ games[g1].createdAt = games[g2].createdAt
     /\ games[g1].minNumber = games[g2].minNumber
     /\ games[g1].maxNumber = games[g2].maxNumber)
    => games[g1].secretNumber = games[g2].secretNumber

C19_SecretDeterministic ==
  /\ []C19_SameBlockSameSecret
  /\ [][C19_SecretStep]_vars

\* two games over the same two numbers, created in the same block by
\* different creators with different fees
C19_Witness ==
  \E g1 \in DOMAIN games, g2 \in DOMAIN games :
    /\ g1 < g2
    /\ games[g1].createdAt = games[g2].createdAt
    /\ games[g1].minNumber = games[g2].minNumber
    /\ games[g1].maxNumber = games[g2].maxNumber
    /\ games[g1].minNumber < games[g1].maxNumber
    /\ games[g1].creator # games[g2].creator
    /\ games[g1].entryFee # games[g2].entryFee

(***************************************************************************)
(* C20: the first correct guess wins the entire pot.  For every game, the  *)
(* winner is the caller of the first successful guess, in serial order,    *)
(* whose number equals the secret, and the amount paid to that winner is   *)
(* the sum of all entry fees charged by successful guesses on that game    *)
(* (the winning one included), which is entryFee times the final           *)
(* guessCount.  The log of a game holds its successful guesses in order.   *)
(***************************************************************************)
C20_FirstCorrectGuessWinsPot ==
  \A g \in DOMAIN games :
    LET log == CurrentGuesses(g)
        correct == {i \in DOMAIN log : log[i].guess = games[g].secretNumber}
    IN /\ games[g].guessCount = Len(log)
       /\ games[g].status = "active"
            => /\ correct = {}
               /\ PayoutsIn(payoutLog, g) = 0
               /\ games[g].prizePool = games[g].entryFee * Len(log)
       /\ games[g].status = "won"
            => /\ correct = {Len(log)}
               /\ log[Len(log)].player = games[g].winner
               /\ \E i \in DOMAIN payoutLog :
                    /\ payoutLog[i].gameId = g
                    /\ payoutLog[i].to = games[g].winner
                    /\ payoutLog[i].amount
                         = games[g].entryFee * games[g].guessCount

\* a game won at the second guess, by another player than the one who missed
C20_Witness ==
  \E g \in DOMAIN games :
    /\ games[g].status = "won"
    /\ games[g].guessCount = 2
    /\ Len(CurrentGuesses(g)) = 2
    /\ CurrentGuesses(g)[1].player # games[g].winner
    /\ CurrentGuesses(g)[1].guess # games[g].secretNumber
    /\ \E i \in DOMAIN payoutLog : payoutLog[i].amount = 2

(***************************************************************************)
(* C21: retried submissions are not deduplicated.  A guess(gameId, n) by a *)
(* player who has already guessed the same non-matching in-range n on the  *)
(* Active game succeeds again (while the player is below capacity and can  *)
(* pay): it charges the entry fee, appends n to the player's history and   *)
(* to the game log and increments guessCount; AlreadyGuessed(107) is never *)
(* returned by any call.                                                   *)
(***************************************************************************)
C21_RepeatedGuessStep ==
  CallStep("guess")
    => /\ ~IsErr(lastCall'.result, ERR_ALREADY_GUESSED)
       /\ \A gameId \in DOMAIN games :
            (/\ games[gameId].status = "active"
             /\ Len(CurrentGuesses(gameId)) < GameGuessCap)
            => \A sender \in Players, number \in GuessNumbers :
                 (/\ \E i \in DOMAIN PlayerGuessList(gameId, sender) :
                       PlayerGuessList(gameId, sender)[i] = number
                  /\ Len(PlayerGuessList(gameId, sender)) < PlayerGuessCap
                  /\ number # games[gameId].secretNumber
                  /\ balances[sender] >= games[gameId].entryFee
                  /\ Guess(sender, gameId, number))
                 => /\ IsOkBool(lastCall'.result, FALSE)
                    /\ balances'[sender]
                         = balances[sender] - games[gameId].entryFee
                    /\ balances'[Contract]
                         = balances[Contract] + games[gameId].entryFee
                    /\ playerGuesses'[PlayerKey(gameId, sender)]
                         = Append(PlayerGuessList(gameId, sender), number)
                    /\ gameGuesses'[gameId]
                         = Append(CurrentGuesses(gameId),
                                  Attempt(sender, number, blockHeight))
                    /\ games'[gameId].guessCount
                         = games[gameId].guessCount + 1

C22_IsGameActiveResults ==
  \A gameId \in GameIds :
    IsGameActive(games, gameId) =
      IF gameId \notin DOMAIN games THEN Err(ERR_GAME_NOT_FOUND)
      ELSE IF games[gameId].status = "active" THEN OkBool(TRUE)
      ELSE OkBool(FALSE)

(***************************************************************************)
(* C23: get-game-winner(gameId) returns the absent value both for an       *)
(* unknown gameId and for an existing game that has no winner yet (the two *)
(* results are equal), and returns the decided winner for a Won game.      *)
(***************************************************************************)
C23_GetGameWinnerResults ==
  \A gameId \in GameIds :
    GetGameWinner(games, gameId) =
      IF gameId \notin DOMAIN games THEN None
      ELSE IF games[gameId].winner = "none" THEN None
      ELSE Some(games[gameId].winner)

(***************************************************************************)
(* C24: no prize pool is ever permanently locked.  In every reachable      *)
(* state, for every Active game there is still some caller and number for  *)
(* which guess succeeds with a win.  The property is stated for the games  *)
(* that hold a pool, with the players as callers, in the states where one  *)
(* of the players can pay the entry fee and has room in their own history. *)
(***************************************************************************)
C24_ActiveGameCanBeWon ==
  \A gameId \in DOMAIN games :
    (/\ games[gameId].status = "active"
     /\ games[gameId].prizePool > 0
     /\ \E sender \in Players :
          /\ balances[sender] >= games[gameId].entryFee
          /\ Len(PlayerGuessList(gameId, sender)) < PlayerGuessCap)
    => \E sender \in Players, number \in GuessNumbers :
         IsOkBool(GuessResponse(sender, gameId, number), TRUE)

(***************************************************************************)
(* C25: in every reachable state and for every game, guessCount equals the *)
(* number of successful guess calls on that game (the winning one          *)
(* included), equals the length of the game's guess log, equals the sum of *)
(* the lengths of all players' guess histories for that game, and is at    *)
(* most 1000.                                                              *)
(***************************************************************************)
RECURSIVE C25_SumOfLengths(_)
C25_SumOfLengths(keys) ==
  IF keys = {} THEN 0
  ELSE LET k == CHOOSE x \in keys : TRUE
       IN Len(playerGuesses[k]) + C25_SumOfLengths(keys \ {k})

C25_CountMatchesLists ==
  \A g \in DOMAIN games :
    /\ games[g].guessCount = Len(CurrentGuesses(g))
    /\ games[g].guessCount =
         C25_SumOfLengths({k \in DOMAIN playerGuesses : k.gameId = g})
    /\ games[g].guessCount <= GameGuessCap

\* a successful guess adds one to the count of exactly one game, and the
\* count of a game changes in no other step
C25_CountStep ==
  /\ \A g \in DOMAIN games :
       games'[g].guessCount # games[g].guessCount
         => /\ CallStep("guess")
            /\ IsOk(lastCall'.result)
            /\ games'[g].guessCount = games[g].guessCount + 1
  /\ (CallStep("guess") /\ IsOk(lastCall'.result))
       => \E g \in DOMAIN games :
            /\ games'[g].guessCount = games[g].guessCount + 1
            /\ \A h \in DOMAIN games \ {g} :
                 games'[h].guessCount = games[h].guessCount

C25_GuessCountIsExact ==
  /\ []C25_CountMatchesLists
  /\ [][C25_CountStep]_vars

\* the log of a game with a fee has reached its capacity with the last guess
C25_Witness ==
  /\ lastCall.op = "guess"
  /\ IsOk(lastCall.result)
  /\ games[0].guessCount = GameGuessCap
  /\ games[0].entryFee = 1
  /\ \E p \in Players : Len(PlayerGuessList(0, p)) = 1

(***************************************************************************)
(* C26: immediately after a successful create-game(min, max, fee) the new  *)
(* record has creator=caller, minNumber=min, maxNumber=max, entryFee=fee,  *)
(* prizePool=0, guessCount=0, winner absent, status=Active and createdAt   *)
(* equal to the current block height, get-prize-pool for it reports 0, and *)
(* its game log and every player's history for it are empty.               *)
(***************************************************************************)
C26_CreateStep ==
  (CallStep("create-game") /\ IsOk(lastCall'.result))
    => \A sender \in Players, minNumber \in MinNumbers,
          maxNumber \in MaxNumbers, entryFee \in Fees :
         CreateGame(sender, minNumber, maxNumber, entryFee)
           => LET game == games'[totalGames]
              IN /\ game.creator = sender
                 /\ game.minNumber = minNumber
                 /\ game.maxNumber = maxNumber
                 /\ game.entryFee = entryFee
                 /\ game.prizePool = 0
                 /\ game.guessCount = 0
                 /\ game.winner = "none"
                 /\ game.status = "active"
                 /\ game.createdAt = blockHeight
                 /\ GetPrizePool(games', totalGames) = Some(0)
                 /\ DefaultTo(<<>>, gameGuesses', totalGames) = <<>>
                 /\ \A p \in Players :
                      DefaultTo(<<>>, playerGuesses',
                                PlayerKey(totalGames, p)) = <<>>

C26_NewGameIsFresh == [][C26_CreateStep]_vars

\* wallet_1 has just created a game with a fee in the second block
C26_Witness ==
  /\ lastCall.op = "create-game"
  /\ IsOk(lastCall.result)
  /\ totalGames >= 1
  /\ games[totalGames - 1].creator = "wallet_1"
  /\ games[totalGames - 1].entryFee = 1
  /\ games[totalGames - 1].createdAt = 2

(***************************************************************************)
(* C27: in every reachable state every Active game satisfies               *)
(* prizePool = entryFee * guessCount; consequently a game's prizePool      *)
(* never decreases between two states in which the game is Active.         *)
(***************************************************************************)
C27_PoolIsFeeTimesCount ==
  \A g \in DOMAIN games :
    games[g].status = "active"
      => games[g].prizePool = games[g].entryFee * games[g].guessCount

C27_PoolStep ==
  \A g \in DOMAIN games :
    (games[g].status = "active" /\ games'[g].status = "active")
      => games'[g].prizePool >= games[g].prizePool

C27_ActivePoolGrows ==
  /\ []C27_PoolIsFeeTimesCount
  /\ [][C27_PoolStep]_vars

\* an Active game with a fee that was missed twice
C27_Witness ==
  \E g \in DOMAIN games :
    /\ games[g].status = "active"
    /\ games[g].entryFee = 1
    /\ games[g].guessCount = 2
    /\ games[g].prizePool = 2

(***************************************************************************)
(* C28: custody conservation.  The contract account starts at 0 and        *)
(* receives funds only through guess; in every reachable state the         *)
(* contract's custodied balance equals the sum of prizePool over all       *)
(* games, and the total balance of all accounts plus custody is constant   *)
(* across every create-game and guess call, successful or failed.          *)
(***************************************************************************)
RECURSIVE C28_PoolsBelow(_)
C28_PoolsBelow(n) ==
  IF n = 0 THEN 0 ELSE games[n - 1].prizePool + C28_PoolsBelow(n - 1)

RECURSIVE C28_TotalOf(_)
C28_TotalOf(accounts) ==
  IF accounts = {} THEN 0
  ELSE LET a == CHOOSE x \in accounts : TRUE
       IN balances[a] + C28_TotalOf(accounts \ {a})

C28_CustodyConserved ==
  /\ balances[Contract] = C28_PoolsBelow(totalGames)
  /\ C28_TotalOf(DOMAIN balances) = Cardinality(Players) * InitBalance

\* custody holds the fees of two missed guesses
C28_Witness ==
  /\ balances[Contract] = 2
  /\ \E g \in DOMAIN games : games[g].prizePool = 2
  /\ \E p \in Players : balances[p] < InitBalance

(***************************************************************************)
(* C29: when several failure conditions hold for one guess call, the       *)
(* reported error is the first in the order GameNotFound(101),             *)
(* GameAlreadyWon(102), InvalidGuess(103), the fee-transfer failure,       *)
(* TooManyGuesses(108); in particular an out-of-range guess on a Won game  *)
(* reports 102, and a player at the 10-guess capacity who cannot pay the   *)
(* fee gets the transfer failure, not 108.                                 *)
(***************************************************************************)
\* an error that is none of the codes the contract returns by itself
C29_IsTransferFailure(r) ==
  /\ r.kind = "err"
  /\ r.val \notin {ERR_GAME_NOT_FOUND, ERR_GAME_ALREADY_WON,
                   ERR_INVALID_GUESS, ERR_TOO_MANY_GUESSES}

C29_FirstFailureReported(r, sender, gameId, number) ==
  IF gameId \notin DOMAIN games THEN IsErr(r, ERR_GAME_NOT_FOUND)
  ELSE IF games[gameId].status # "active"
    THEN IsErr(r, ERR_GAME_ALREADY_WON)
  ELSE IF number < games[gameId].minNumber \/ number > games[gameId].maxNumber
    THEN IsErr(r, ERR_INVALID_GUESS)
  ELSE IF games[gameId].entryFee > 0
            /\ balances[sender] < games[gameId].entryFee
    THEN C29_IsTransferFailure(r)
  ELSE IF \/ Len(PlayerGuessList(gameId, sender)) >= PlayerGuessCap
          \/ Len(CurrentGuesses(gameId)) >= GameGuessCap
    THEN IsErr(r, ERR_TOO_MANY_GUESSES)
  ELSE TRUE

C29_ErrorOrder ==
  [][CallStep("guess")
       => \A sender \in Players, gameId \in GameIds, number \in GuessNumbers :
            Guess(sender, gameId, number)
              => C29_FirstFailureReported(lastCall'.result, sender, gameId,
                                          number)]_vars

\* the transfer failure was just reported while the only player who cannot
\* pay is at the capacity of 10 guesses on the Active game
C29_Witness ==
  /\ lastCall.op = "guess"
  /\ C29_IsTransferFailure(lastCall.result)
  /\ totalGames = 1
  /\ games[0].status = "active"
  /\ games[0].entryFee = 1
  /\ \E p \in Players :
       /\ Len(PlayerGuessList(0, p)) = PlayerGuessCap
       /\ balances[p] = 0
       /\ \A q \in Players \ {p} : balances[q] >= 1

(***************************************************************************)
(* C30: frame.  A game's creator, secretNumber, minNumber, maxNumber,      *)
(* entryFee and createdAt never change after creation and no game record   *)
(* is ever removed; a guess on game g changes at most g's prizePool,       *)
(* guessCount, winner and status, the caller's history for g and g's log,  *)
(* and leaves every other game's record and histories unchanged;           *)
(* create-game changes no existing record or history.                      *)
(***************************************************************************)
C30_FixedFields(game) ==
  <<game.creator, game.secretNumber, game.minNumber, game.maxNumber,
    game.entryFee, game.createdAt>>

\* every history but the one under the key is as before
C30_OtherHistoriesKept(key) ==
  \A k \in (DOMAIN playerGuesses \cup DOMAIN playerGuesses') \ {key} :
    /\ k \in DOMAIN playerGuesses
    /\ k \in DOMAIN playerGuesses'
    /\ playerGuesses'[k] = playerGuesses[k]

\* every log but the one of the game is as before
C30_OtherLogsKept(gameId) ==
  \A h \in (DOMAIN gameGuesses \cup DOMAIN gameGuesses') \ {gameId} :
    /\ h \in DOMAIN gameGuesses
    /\ h \in DOMAIN gameGuesses'
    /\ gameGuesses'[h] = gameGuesses[h]

C30_FrameStep ==
  /\ \A g \in DOMAIN games :
       /\ g \in DOMAIN games'
       /\ C30_FixedFields(games'[g]) = C30_FixedFields(games[g])
  /\ CallStep("create-game")
       => /\ \A g \in DOMAIN games : games'[g] = games[g]
          /\ playerGuesses' = playerGuesses
          /\ gameGuesses' = gameGuesses
  /\ (CallStep("guess") /\ ~IsOk(lastCall'.result))
       => UNCHANGED <<games, playerGuesses, gameGuesses>>
  /\ (CallStep("guess") /\ IsOk(lastCall'.result))
       => \A sender \in Players, gameId \in DOMAIN games,
             number \in GuessNumbers :
            Guess(sender, gameId, number)
              => /\ \A h \in DOMAIN games \ {gameId} : games'[h] = games[h]
                 /\ DOMAIN games' = DOMAIN games
                 /\ C30_OtherLogsKept(gameId)
                 /\ C30_OtherHistoriesKept(
                      [gameId |-> gameId, player |-> sender])

C30_Frame == [][C30_FrameStep]_vars

\* a guess was just recorded on the second game, beside an untouched first
C30_Witness ==
  /\ lastCall.op = "guess"
  /\ IsOk(lastCall.result)
  /\ totalGames = 2
  /\ games[1].guessCount = 1
  /\ games[0].guessCount = 0
  /\ games[0].status = "active"

(***************************************************************************)
(* C31: get-player-guesses(gameId, player) returns exactly the numbers of  *)
(* that player's successful guess calls on that game, in submission order  *)
(* and with repeats, never more than 10, and the empty sequence when the   *)
(* player has none or the game is unknown; a number from a failed guess    *)
(* call never appears, and a recorded entry is never removed or reordered. *)
(***************************************************************************)
\* the numbers a player submitted to a game, as its log has them, in order
C31_NumbersInLog(gameId, player) ==
  LET own == SelectSeq(CurrentGuesses(gameId),
                       LAMBDA attempt : attempt.player = player)
  IN [i \in 1..Len(own) |-> own[i].guess]

C31_HistoryIsOwnGuesses ==
  \A gameId \in GameIds, player \in Players :
    /\ GetPlayerGuesses(gameId, player) = C31_NumbersInLog(gameId, player)
    /\ Len(GetPlayerGuesses(gameId, player)) <= PlayerGuessCap
    /\ gameId \notin DOMAIN games => GetPlayerGuesses(gameId, player) = <<>>

\* every answer but the one for the game and the player is as before
C31_OtherAnswersKept(gameId, player) ==
  \A g \in GameIds, p \in Players :
    (g # gameId \/ p # player)
      => GetPlayerGuesses(g, p)' = GetPlayerGuesses(g, p)

C31_HistoryStep ==
  /\ (CallStep("guess") /\ IsOk(lastCall'.result))
       => \A sender \in Players, gameId \in DOMAIN games,
             number \in GuessNumbers :
            Guess(sender, gameId, number)
              => /\ GetPlayerGuesses(gameId, sender)' =
                      Append(GetPlayerGuesses(gameId, sender), number)
                 /\ C31_OtherAnswersKept(gameId, sender)
  /\ ~(CallStep("guess") /\ IsOk(lastCall'.result))
       => \A g \in GameIds, p \in Players :
            GetPlayerGuesses(g, p)' = GetPlayerGuesses(g, p)

C31_HistoryIsExact ==
  /\ []C31_HistoryIsOwnGuesses
  /\ [][C31_HistoryStep]_vars

\* a player's history holds ten numbers, the last one a repeat of the one
\* before it, and the player's next guess has just been refused
C31_Witness ==
  /\ lastCall.op = "guess"
  /\ IsErr(lastCall.result, ERR_TOO_MANY_GUESSES)
  /\ \E p \in Players :
       /\ Len(GetPlayerGuesses(0, p)) = PlayerGuessCap
       /\ GetPlayerGuesses(0, p)[PlayerGuessCap] =
            GetPlayerGuesses(0, p)[PlayerGuessCap - 1]
       /\ \E q \in Players \ {p} : Len(GetPlayerGuesses(0, q)) = 1
  /\ \A p \in Players : GetPlayerGuesses(1, p) = <<>>

(***************************************************************************)
(* C32: for all unsigned min <= max and every fee, at any block height at  *)
(* which the previous block's hash is available, create-game succeeds and  *)
(* returns the next id; the only error create-game ever returns is         *)
(* InvalidParams(105) for min > max (the range computation                 *)
(* maxNumber - minNumber + 1 never overflows or underflows into a          *)
(* different failure).                                                     *)
(***************************************************************************)
C32_CreateGameOnlyFailsWith105 ==
  [][CallStep("create-game")
       => \A sender \in Creators, minNumber \in WideMinNumbers,
             maxNumber \in WideMaxNumbers, entryFee \in Fees :
            CreateGame(sender, minNumber, maxNumber, entryFee)
              => /\ minNumber <= maxNumber
                      => IsOkUint(lastCall'.result, totalGames)
                 /\ ~IsOk(lastCall'.result)
                      => /\ IsErr(lastCall'.result, ERR_INVALID_PARAMS)
                         /\ minNumber > maxNumber]_vars

(***************************************************************************)
(* C33: the driver's contractCall makes at most 5 broadcast attempts for   *)
(* one call: it returns the transaction id on the first attempt that       *)
(* succeeds and makes no further attempt, waits 2 seconds after each       *)
(* failed attempt except the fifth, and after 5 failed attempts throws     *)
(* instead of returning; it always terminates.                             *)
(*                                                                         *)
(* C33_ContractCallRetries states the claim.  It holds for every answer    *)
(* that carries a transaction id or an error and for a throw; it fails for *)
(* an answer without id and without error, which contractCall returns as   *)
(* "unknown-txid" at once.  C33_RetryLoop holds for every answer.          *)
(***************************************************************************)
\* at every position of a call: the attempts that failed so far, the time
\* waited after them, and the broadcasts made
C33_CallBounded ==
  /\ driver.pc = "call"
       => /\ driver.i <= 4
          /\ driver.slept = 2000 * driver.i
          /\ driver.broadcasts <= driver.i
  /\ driver.pc = "broadcast"
       => /\ driver.i <= 4
          /\ driver.slept = 2000 * driver.i
          /\ driver.broadcasts >= 1
          /\ driver.broadcasts <= driver.i + 1
  /\ driver.pc = "callBackoff"
       => /\ driver.i <= 3
          /\ driver.slept = 2000 * driver.i
          /\ driver.broadcasts <= driver.i + 1
  /\ driver.pc = "callReturned"
       => /\ driver.i <= 4
          /\ driver.slept = 2000 * driver.i
          /\ driver.broadcasts >= 1
          /\ driver.broadcasts <= driver.i + 1
          /\ driver.result \in TxIds
  /\ driver.pc = "callThrown"
       => /\ driver.i = 5
          /\ driver.slept = 2000 * 4
          /\ driver.broadcasts <= 5
          /\ driver.result = "none"

\* the counters of the call are as before
C33_CountersKept ==
  /\ driver'.i = driver.i
  /\ driver'.slept = driver.slept
  /\ driver'.broadcasts = driver.broadcasts

\* where a failed attempt number i + 1 leads
C33_AfterFailure == IF driver.i < 4 THEN "callBackoff" ELSE "callThrown"

C33_CallStep ==
  /\ driver.pc = "call"
       => \/ driver'.pc = "call" /\ C33_CountersKept
          \/ /\ driver'.pc = "broadcast"
             /\ driver'.broadcasts = driver.broadcasts + 1
          \/ driver'.pc = C33_AfterFailure
  /\ driver.pc = "broadcast"
       => /\ \/ driver'.pc = "broadcast" /\ C33_CountersKept
             \/ /\ driver'.pc = "callReturned"
                /\ C33_CountersKept
                /\ driver.node.verdict = "taken"
                /\ driver'.result = driver.node.txid
             \/ driver'.pc = C33_AfterFailure
          /\ Len(mempool') > Len(mempool)
               => mempool' = Append(mempool, [txid |-> driver'.node.txid,
                                              fn |-> driver.fn,
                                              args |-> driver.args])
  /\ driver.pc = "callBackoff"
       => \/ driver'.pc = "callBackoff" /\ C33_CountersKept
          \/ /\ driver'.pc = "call"
             /\ driver'.i = driver.i + 1
             /\ driver'.slept = driver.slept + 2000
             /\ driver'.broadcasts = driver.broadcasts
  /\ driver.pc \in {"callReturned", "callThrown"}
       => /\ driver'.pc \in {driver.pc, "loop", "stopped"}
          /\ driver'.pc = driver.pc
               => C33_CountersKept /\ driver'.result = driver.result
          /\ Len(mempool') <= Len(mempool)
  /\ driver.pc \notin {"broadcast"} => Len(mempool') <= Len(mempool)

C33_CallTerminates ==
  (driver.pc \in {"call", "broadcast", "callBackoff"})
    ~> (driver.pc \in {"callReturned", "callThrown"})

C33_ContractCallRetries ==
  /\ []C33_CallBounded
  /\ [][C33_CallStep]_vars
  /\ C33_CallTerminates

\* The part of C33 that does not depend on what an answer carries: the
\* attempts, the waits and the broadcasts at every position of a call, and
\* a returned value that is an id or the placeholder of lines 256-260
C33_RetryLoopBounded ==
  /\ driver.pc \in {"call", "broadcast", "callBackoff", "callReturned"}
       => /\ driver.i <= 4
          /\ driver.slept = 2000 * driver.i
          /\ driver.broadcasts <= driver.i + 1
  /\ driver.pc = "callThrown"
       => /\ driver.i = 5
          /\ driver.slept = 2000 * 4
          /\ driver.broadcasts <= 5
          /\ driver.result = "none"
  /\ driver.pc = "callReturned"
       => driver.result \in TxIds \cup {"unknown-txid"}

\* after a return or a throw no further attempt is made
C33_NoFurtherAttempt ==
  driver.pc \in {"callReturned", "callThrown"}
    => /\ driver'.pc \in {driver.pc, "loop", "stopped"}
       /\ Len(mempool') <= Len(mempool)

C33_RetryLoop ==
  /\ []C33_RetryLoopBounded
  /\ [][C33_NoFurtherAttempt]_vars
  /\ C33_CallTerminates

(***************************************************************************)
(* C34: the driver's readTotalGames returns the value of the contract's    *)
(* total-games counter whenever the read-only call to get-total-games      *)
(* succeeds, so that in guess and full mode the driver submits its guess   *)
(* to game id total-1 whenever at least one game has been created.         *)
(***************************************************************************)
C34_ReadStep ==
  /\ (driver.pc = "read" /\ driver.node = NoVerdict
        /\ driver'.node # NoVerdict)
       => IsOkUint(driver'.node.res, totalGames)
  /\ (driver.pc = "read" /\ driver'.pc = "readReturned")
       => driver'.total = driver.node.res.val
  /\ (driver.pc = "readReturned" /\ driver'.pc # driver.pc
        /\ driver.total >= 1)
       => /\ driver'.pc = "call"
          /\ driver'.fn = "guess"
          /\ driver'.args[1] = driver.total - 1

C34_ReadTotalGamesReturnsCounter == [][C34_ReadStep]_vars
====
